---- MODULE Spec2Model ----
(***************************************************************************)
(* Dolev-Yao model of the Needham-Schroeder-Lowe public key protocol of    *)
(* examples/dolevyao_nsl.c: the item algebra, the classifier mypub, the    *)
(* client and server roles and the attacker loop, all acting on one world. *)
(***************************************************************************)
EXTENDS Integers, Sequences, FiniteSets, TLC

(* ------------------------------- bounds -------------------------------- *)

\* number of principals create_principal may hand out
MaxPrincipals == 3
\* number of key pairs one principal may create
MaxKeys == 3
\* number of role sessions (client sessions and server iterations) started
MaxSessions == 2
\* number of iterations of the attacker's inner loop
MaxAttackerSteps == 2
\* nesting depth of the items the attacker builds (message 2 has depth 3)
MaxDepth == 3
\* largest client nonce info a server folds into its own nonce info
MaxNonceInfo == 100000
\* largest principal and key id of the items the item functions are called on
MaxItemId == 1

(* ------------------------------- items --------------------------------- *)

key_item(creator, id, isPublicKey, info) ==
    [tag |-> "key", creator |-> creator, id |-> id,
     isPublicKey |-> isPublicKey, info |-> info]

data_item(id) == [tag |-> "data", id |-> id]

encrypted_item(keyCreator, id, info, payload) ==
    [tag |-> "enc", keyCreator |-> keyCreator, id |-> id, info |-> info,
     payload |-> payload]

pair_item(first, second) == [tag |-> "pair", first |-> first, second |-> second]

\* the outcome of a wrapper that aborts
Abort == [tag |-> "abort"]

\* a null item pointer
NoItem == [tag |-> "null"]

IsAbort(r) == r.tag = "abort"

RECURSIVE Depth(_)
Depth(i) ==
    CASE i.tag = "enc" -> 1 + Depth(i.payload)
      [] i.tag = "pair" ->
            1 + (IF Depth(i.first) >= Depth(i.second) THEN Depth(i.first)
                                                      ELSE Depth(i.second))
      [] OTHER -> 0

(* --------------------------- int_pair and bad -------------------------- *)

RECURSIVE Pow2(_)
Pow2(n) == IF n <= 0 THEN 1 ELSE 2 * Pow2(n - 1)

\* an injection of pairs of naturals into the integers: 2^f * (2s + 1)
int_pair(f, s) == Pow2(f) * (2 * s + 1)

RECURSIVE int_left(_)
int_left(p) ==
    IF p <= 0 THEN 0
    ELSE IF p % 2 = 1 THEN 0 ELSE 1 + int_left(p \div 2)

RECURSIVE int_right(_)
int_right(p) ==
    IF p <= 0 THEN 0
    ELSE IF p % 2 = 1 THEN (p - 1) \div 2 ELSE int_right(p \div 2)

VARIABLES
    badSet,        \* the principals for which bad(p) holds, fixed at the start
    principals,    \* principals(count)
    keyCount,      \* principal(id, keyCount), for every principal created
    pki,           \* id of the encryption key pair of each protocol principal
    proc,          \* what the holder of principal(id, _) is doing
    me,            \* the attacker's principal, -1 before create_principal
    attackerSteps, \* iterations of the attacker's inner loop so far
    World,         \* the items sent into the world
    clientDone,    \* the client sessions that reached the end of client()
    serverDone,    \* the server iterations that reached the end of the loop body
    keypairs,      \* the (creator, id) of every key pair create_keypair returned
    created,       \* the number of create_keypair calls
    nonces,        \* the nonce of every role session started, in order
    call           \* one call of an item function: its arguments and its result

vars == <<badSet, principals, keyCount, pki, proc, me, attackerSteps, World,
          clientDone, serverDone, keypairs, created, nonces, call>>

bad(principal) == principal \in badSet

(* ------------------------------- mypub --------------------------------- *)

RECURSIVE mypub(_)

\* mypub_key without the client nonce disjunct
mypub_key_ungated(i) ==
    \/ i.isPublicKey
    \/ bad(i.creator)
    \/ int_left(i.info) = 2 /\ bad(int_left(int_right(i.info)))

\* the key_item case without the creator's disjunct
mypub_key_nocreator(i) ==
    \/ i.isPublicKey
    \/ int_left(i.info) = 1 /\ bad(int_right(i.info))
    \/ int_left(i.info) = 2 /\ bad(int_left(int_right(i.info)))

\* the key_item case
mypub_key(i) ==
    \/ i.isPublicKey
    \/ bad(i.creator)
    \/ int_left(i.info) = 1 /\ bad(int_right(i.info))
    \/ int_left(i.info) = 2 /\ bad(int_left(int_right(i.info)))

\* the encrypted_item case
mypub_encrypted(i) ==
    \/ mypub(i.payload)
    \/ LET creator == i.keyCreator
           info == i.info
           m == i.payload
       IN  CASE m.tag = "key" ->
                /\ int_left(m.info) = 2
                /\ creator = m.creator
                /\ ~m.isPublicKey
                /\ info = int_pair(0, 0)
                /\ int_left(int_right(m.info)) =
                       int_left(int_right(int_right(m.info)))
                /\ int_left(int_right(int_right(int_right(m.info)))) = 0
                /\ int_right(int_right(int_right(int_right(m.info)))) =
                       int_pair(1, creator)
             [] m.tag = "pair" ->
                LET f == m.first
                    s == m.second
                IN  CASE s.tag = "key" ->
                         /\ s.info = int_pair(1, creator)
                         /\ f = data_item(s.creator)
                         /\ ~s.isPublicKey
                         /\ info = int_pair(0, 0)
                      [] s.tag = "pair" ->
                         LET fs == s.first
                             ss == s.second
                         IN  CASE ss.tag = "key" ->
                                  /\ int_left(ss.info) = 2
                                  /\ creator = int_left(int_right(ss.info))
                                  /\ ~ss.isPublicKey
                                  /\ f = data_item(ss.creator)
                                  /\ info = int_pair(0, 0)
                                  /\ \/ mypub(fs)
                                     \/ CASE fs.tag = "key" ->
                                             /\ fs.creator =
                                                    int_left(int_right(int_right(ss.info)))
                                             /\ (IF fs.isPublicKey THEN 1 ELSE 0) =
                                                    int_left(int_right(int_right(
                                                        int_right(ss.info))))
                                             /\ fs.info =
                                                    int_right(int_right(int_right(
                                                        int_right(ss.info))))
                                             /\ fs.creator = creator
                                             /\ ~fs.isPublicKey
                                             /\ fs.info = int_pair(1, ss.creator)
                                          [] OTHER -> FALSE
                               [] OTHER -> FALSE
                      [] OTHER -> FALSE
             [] OTHER -> FALSE

\* the pair_item case with the second component left out
mypub_pair_first(i) == mypub(i.first)

\* the pair_item case
mypub_pair(i) == mypub(i.first) /\ mypub(i.second)

mypub(i) ==
    CASE i.tag = "key" -> mypub_key(i)
      [] i.tag = "data" -> TRUE
      [] i.tag = "enc" -> mypub_encrypted(i)
      [] i.tag = "pair" -> mypub_pair(i)
      [] OTHER -> FALSE

(* --------------------------- wrapper functions ------------------------- *)

keypair_get_private_key(creator, id, info) == key_item(creator, id, FALSE, info)

keypair_get_public_key(creator, id, info) == key_item(creator, id, TRUE, info)

check_is_key(item) == IF item.tag = "key" THEN item ELSE Abort

create_data_item(data) == data_item(data)

\* item_get_data without the check of the item's kind
item_get_data_unchecked(item) == [tag |-> "int", val |-> item.id]

item_get_data(item) ==
    IF item.tag = "data" THEN [tag |-> "int", val |-> item.id] ELSE Abort

\* encrypt that returns the payload as it is
encrypt_plain(key, payload) == IF key.isPublicKey THEN payload ELSE Abort

\* encrypt that takes a private key as well
encrypt_private_too(key, payload) ==
    encrypted_item(key.creator, key.id, key.info, payload)

encrypt(key, payload) ==
    IF key.isPublicKey
    THEN encrypted_item(key.creator, key.id, key.info, payload)
    ELSE Abort

\* decrypt without the comparison of the key with the ciphertext's key
decrypt_anykey(key, item) ==
    IF key.isPublicKey THEN Abort
    ELSE IF item.tag # "enc" THEN Abort
    ELSE item.payload

\* decrypt that takes a public key as well
decrypt_public_too(key, item) ==
    IF item.tag # "enc" THEN Abort
    ELSE IF item.keyCreator = key.creator /\ item.id = key.id /\ item.info = key.info
         THEN item.payload
         ELSE Abort

decrypt(key, item) ==
    IF key.isPublicKey THEN Abort
    ELSE IF item.tag # "enc" THEN Abort
    ELSE IF item.keyCreator = key.creator /\ item.id = key.id /\ item.info = key.info
         THEN item.payload
         ELSE Abort

\* create_pair with the components in the wrong order
create_pair_swapped(first, second) == pair_item(second, first)

create_pair(first, second) == pair_item(first, second)

\* pair_get_first that returns the second component
pair_get_first_as_second(pair) == IF pair.tag = "pair" THEN pair.second ELSE Abort

pair_get_first(pair) == IF pair.tag = "pair" THEN pair.first ELSE Abort

\* pair_get_second that returns the first component
pair_get_second_as_first(pair) == IF pair.tag = "pair" THEN pair.first ELSE Abort

pair_get_second(pair) == IF pair.tag = "pair" THEN pair.second ELSE Abort

\* item_equals that finds any two items equal
item_equals_always(item1, item2) == TRUE

\* item_equals that compares the kinds of the items only
item_equals_shallow(item1, item2) == item1.tag = item2.tag

item_equals(item1, item2) == item1 = item2

\* net_send that keeps only the last datagram
net_send_last(world, datagram) == {datagram}

\* net_send: the world after the datagram is sent
net_send(world, datagram) == world \cup {datagram}

\* net_receive: the items it may return
net_receive == World

\* get_client_public_key: the directory's key of a protocol principal, and some
\* public encryption key of the named creator for anyone else
get_client_public_key(client) ==
    IF client \in DOMAIN pki
    THEN {key_item(client, pki[client], TRUE, int_pair(0, 0))}
    ELSE {key_item(client, k, TRUE, int_pair(0, 0)) : k \in 0 .. MaxKeys - 1}

\* the values choose() returns where a key info is wanted
InfoChoices ==
    {0, int_pair(0, 0)}
      \cup {int_pair(1, p) : p \in 0 .. MaxPrincipals - 1}

\* the values choose() returns where a data value is wanted
DataChoices == 0 .. MaxPrincipals - 1

(* ---------------------------- the registry ----------------------------- *)

\* create_principal that leaves the count as it is
create_principal_count_same(count) == count

\* create_principal: the new count and the new principal's key count
create_principal_count(count) == count + 1

\* create_keypair that leaves the key count as it is
create_keypair_count_same(kc, principal) == kc

\* create_keypair that counts the key pair for every principal
create_keypair_count_all(kc, principal) == [p \in DOMAIN kc |-> kc[p] + 1]

\* create_keypair: principal(principal, keyCount + 1)
create_keypair_count(kc, principal) == [kc EXCEPT ![principal] = @ + 1]

\* a process: where it is (pc, and the call it aborted in) and its locals
Idle == [pc |-> "free", at |-> "", client |-> 0, server |-> 0,
         clientNonce |-> NoItem, serverNonce |-> NoItem]

Aborted(pc, at) == [Idle EXCEPT !.pc = pc, !.at = at]

\* no call of an item function is under way
NoCall == [fn |-> "", item1 |-> NoItem, item2 |-> NoItem, result |-> NoItem]

Init ==
    /\ badSet \in SUBSET (0 .. MaxPrincipals - 1)
    /\ principals = 0
    /\ keyCount = << >>
    /\ pki = << >>
    /\ proc = << >>
    /\ me = -1
    /\ attackerSteps = 0
    /\ World = {}
    /\ clientDone = {}
    /\ serverDone = {}
    /\ keypairs = {}
    /\ created = 0
    /\ nonces = << >>
    /\ call = NoCall

\* A protocol principal comes into being: create_principal, then the key pair
\* that client() and server() require, whose public half the directory gives out.
protocol_principal ==
    /\ principals < MaxPrincipals
    /\ ~bad(principals)
    /\ LET p == principals
           kc == (p :> 0) @@ keyCount
       IN  /\ principals' = create_principal_count(principals)
           /\ keyCount' = create_keypair_count(kc, p)
           /\ keypairs' = keypairs \cup {<<p, kc[p]>>}
           /\ created' = created + 1
           /\ pki' = (p :> kc[p]) @@ pki
           /\ proc' = (p :> Idle) @@ proc
           /\ World' = net_send(World,
                  keypair_get_public_key(p, kc[p], int_pair(0, 0)))
    /\ UNCHANGED <<badSet, me, attackerSteps, clientDone, serverDone, nonces, call>>

(* ------------------------------ the client ----------------------------- *)

clientPrivateKey(client) == key_item(client, pki[client], FALSE, int_pair(0, 0))

serverPublicKey(server) == key_item(server, pki[server], TRUE, int_pair(0, 0))

\* the public half taken for the client's nonce
client_nonce_public(client, id, server) ==
    keypair_get_public_key(client, id, int_pair(1, server))

\* the client's nonce taken from key pair 0 instead of a new key pair
client_nonce_reused(client, id, server) ==
    keypair_get_private_key(client, 0, int_pair(1, server))

\* the client's nonce tagged with the client instead of the server
client_nonce_for_self(client, id, server) ==
    keypair_get_private_key(client, id, int_pair(1, client))

\* the private half of the client's nonce key pair
client_nonce(client, id, server) ==
    keypair_get_private_key(client, id, int_pair(1, server))

\* client(), up to its net_receive: the nonce key pair and message 1
client_send1(client, server) ==
    /\ client \in DOMAIN pki /\ server \in DOMAIN pki
    /\ proc[client].pc = "free"
    /\ ~bad(client) /\ ~bad(server)
    /\ keyCount[client] < MaxKeys /\ Len(nonces) < MaxSessions
    /\ LET id == keyCount[client]
           clientNonce == client_nonce(client, id, server)
           i1 == create_data_item(client)
           i2 == create_pair(i1, clientNonce)
           i3 == encrypt(serverPublicKey(server), i2)
       IN  /\ keyCount' = create_keypair_count(keyCount, client)
           /\ keypairs' = keypairs \cup {<<client, id>>}
           /\ created' = created + 1
           /\ World' = net_send(World, i3)
           /\ nonces' = Append(nonces, clientNonce)
           /\ proc' = [proc EXCEPT ![client] =
                  [pc |-> "client", at |-> "", client |-> client, server |-> server,
                   clientNonce |-> clientNonce, serverNonce |-> NoItem]]
    /\ UNCHANGED <<badSet, principals, pki, me, attackerSteps, clientDone, serverDone,
                   call>>

\* what client() extracts from the item i4 it receives
client_i5(client, i4) == decrypt(clientPrivateKey(client), i4)

client_serverNonce(client, i4) == pair_get_second(pair_get_second(client_i5(client, i4)))

\* the checks of client() without the comparison with its own nonce
client_abort_at_nononce(client, i4) ==
    LET i5 == client_i5(client, i4)
        i6 == pair_get_first(i5)
        s == item_get_data(i6)
        i7 == pair_get_second(i5)
        i8 == pair_get_first(i7)
    IN  IF IsAbort(i5) THEN "decrypt"
        ELSE IF IsAbort(i6) THEN "pair_get_first"
        ELSE IF IsAbort(s) THEN "item_get_data"
        ELSE IF s.val # proc[client].server THEN "server"
        ELSE IF IsAbort(i7) THEN "pair_get_second"
        ELSE IF IsAbort(i8) THEN "pair_get_first"
        ELSE IF IsAbort(client_serverNonce(client, i4)) THEN "pair_get_second"
        ELSE ""

\* the call or check at which client() aborts on the item i4, "" if none
client_abort_at(client, i4) ==
    LET i5 == client_i5(client, i4)
        i6 == pair_get_first(i5)
        s == item_get_data(i6)
        i7 == pair_get_second(i5)
        i8 == pair_get_first(i7)
    IN  IF IsAbort(i5) THEN "decrypt"
        ELSE IF IsAbort(i6) THEN "pair_get_first"
        ELSE IF IsAbort(s) THEN "item_get_data"
        ELSE IF s.val # proc[client].server THEN "server"
        ELSE IF IsAbort(i7) THEN "pair_get_second"
        ELSE IF IsAbort(i8) THEN "pair_get_first"
        ELSE IF ~item_equals(proc[client].clientNonce, i8) THEN "item_equals"
        ELSE IF IsAbort(client_serverNonce(client, i4)) THEN "pair_get_second"
        ELSE ""

client_aborts(client, i4) == client_abort_at(client, i4) # ""

\* client(), from its net_receive to its end
client_receive(client, i4) ==
    /\ client \in DOMAIN proc
    /\ proc[client].pc = "client"
    /\ i4 \in net_receive
    /\ IF client_aborts(client, i4)
       THEN /\ proc' = [proc EXCEPT ![client] =
                   Aborted("client_aborted", client_abort_at(client, i4))]
            /\ UNCHANGED <<World, clientDone>>
       ELSE LET serverNonce == client_serverNonce(client, i4)
                i9 == encrypt(serverPublicKey(proc[client].server), serverNonce)
            IN  /\ World' = net_send(World, i9)
                /\ clientDone' = clientDone \cup
                       {[client |-> client, server |-> proc[client].server,
                         clientNonce |-> proc[client].clientNonce,
                         serverNonce |-> serverNonce]}
                /\ proc' = [proc EXCEPT ![client] = Idle]
    /\ UNCHANGED <<badSet, principals, keyCount, pki, me, attackerSteps,
                   serverDone, keypairs, created, nonces, call>>

(* ------------------------------ the server ----------------------------- *)

serverPrivateKey(server) == key_item(server, pki[server], FALSE, int_pair(0, 0))

\* the first block of the loop body: the client id and nonce in the item i1
server_client(server, i1) ==
    item_get_data(pair_get_first(decrypt(serverPrivateKey(server), i1)))

server_clientNonce(server, i1) ==
    check_is_key(pair_get_second(decrypt(serverPrivateKey(server), i1)))

\* the call at which the first block aborts on the item i1, "" if none
server_abort1_at(server, i1) ==
    LET i2 == decrypt(serverPrivateKey(server), i1)
        i3 == pair_get_first(i2)
    IN  IF IsAbort(i2) THEN "decrypt"
        ELSE IF IsAbort(i3) THEN "pair_get_first"
        ELSE IF IsAbort(server_client(server, i1)) THEN "item_get_data"
        ELSE IF IsAbort(pair_get_second(i2)) THEN "pair_get_second"
        ELSE IF IsAbort(server_clientNonce(server, i1)) THEN "check_is_key"
        ELSE ""

server_aborts1(server, i1) == server_abort1_at(server, i1) # ""

\* the info of the server's nonce key pair without the client nonce's fields
server_nonce_info_short(client, clientNonce) == int_pair(2, int_pair(client, 0))

\* the info of the server's nonce key pair without the client nonce's half
server_nonce_info_noflag(client, clientNonce) ==
    int_pair(2, int_pair(client, int_pair(clientNonce.creator, clientNonce.info)))

\* the info of the server's nonce key pair
server_nonce_info(client, clientNonce) ==
    int_pair(2, int_pair(client, int_pair(clientNonce.creator,
        int_pair(IF clientNonce.isPublicKey THEN 1 ELSE 0, clientNonce.info))))

\* the public half taken for the server's nonce
server_nonce_public(server, id, client, clientNonce) ==
    keypair_get_public_key(server, id, server_nonce_info(client, clientNonce))

\* the private half of the server's nonce key pair
server_nonce(server, id, client, clientNonce) ==
    keypair_get_private_key(server, id, server_nonce_info(client, clientNonce))

\* message 2 without the server's identity
server_message2_anonymous(server, client, clientPublicKey, clientNonce, serverNonce) ==
    encrypt(clientPublicKey, create_pair(clientNonce, serverNonce))

\* message 2
server_message2(server, client, clientPublicKey, clientNonce, serverNonce) ==
    LET i1 == create_data_item(server)
        i2 == create_pair(clientNonce, serverNonce)
        i3 == create_pair(i1, i2)
    IN  encrypt(clientPublicKey, i3)

\* server(), from the first net_receive of an iteration to the second
server_receive1(server, i1) ==
    /\ server \in DOMAIN pki
    /\ proc[server].pc \in {"free", "server1"}
    /\ ~bad(server)
    /\ i1 \in net_receive
    /\ IF server_aborts1(server, i1)
       THEN /\ proc' = [proc EXCEPT ![server] =
                   Aborted("server_aborted", server_abort1_at(server, i1))]
            /\ UNCHANGED <<World, keyCount, keypairs, created, nonces>>
       ELSE LET client == server_client(server, i1).val
                clientNonce == server_clientNonce(server, i1)
                id == keyCount[server]
                serverNonce == server_nonce(server, id, client, clientNonce)
            IN  /\ keyCount[server] < MaxKeys /\ Len(nonces) < MaxSessions
                /\ nonces' = Append(nonces, serverNonce)
                /\ client >= 0 /\ clientNonce.info <= MaxNonceInfo
                /\ \E clientPublicKey \in get_client_public_key(client) :
                     World' = net_send(World,
                         server_message2(server, client, clientPublicKey,
                                         clientNonce, serverNonce))
                /\ proc' = [proc EXCEPT ![server] =
                       [pc |-> "server2", at |-> "", client |-> client, server |-> server,
                        clientNonce |-> clientNonce, serverNonce |-> serverNonce]]
                /\ keyCount' = create_keypair_count(keyCount, server)
                /\ keypairs' = keypairs \cup {<<server, id>>}
                /\ created' = created + 1
    /\ UNCHANGED <<badSet, principals, pki, me, attackerSteps, clientDone, serverDone,
                   call>>

\* the last block without the comparison with the server's nonce
server_abort5_at_unchecked(server, i1) ==
    IF IsAbort(decrypt(serverPrivateKey(server), i1)) THEN "decrypt" ELSE ""

\* the call or check at which the last block aborts on the item i1, "" if none
server_abort5_at(server, i1) ==
    LET i2 == decrypt(serverPrivateKey(server), i1)
    IN  IF IsAbort(i2) THEN "decrypt"
        ELSE IF ~item_equals(i2, proc[server].serverNonce) THEN "item_equals"
        ELSE ""

server_aborts5(server, i1) == server_abort5_at(server, i1) # ""

\* server(), from the second net_receive of an iteration to the next iteration
server_receive2(server, i1) ==
    /\ server \in DOMAIN proc
    /\ proc[server].pc = "server2"
    /\ i1 \in net_receive
    /\ IF server_aborts5(server, i1)
       THEN /\ proc' = [proc EXCEPT ![server] =
                   Aborted("server_aborted", server_abort5_at(server, i1))]
            /\ UNCHANGED serverDone
       ELSE /\ serverDone' = serverDone \cup
                   {[server |-> server, client |-> proc[server].client,
                     clientNonce |-> proc[server].clientNonce,
                     serverNonce |-> proc[server].serverNonce]}
            /\ proc' = [proc EXCEPT ![server] = [Idle EXCEPT !.pc = "server1", !.server = server]]
    /\ UNCHANGED <<badSet, principals, keyCount, pki, me, attackerSteps, World,
                   clientDone, keypairs, created, nonces, call>>

(* ----------------------------- the attacker ---------------------------- *)

\* the attacker's outer loop, entered with principals(0): create_principal
attacker_create_principal ==
    /\ me = -1
    /\ principals = 0
    /\ principals < MaxPrincipals
    /\ me' = principals
    /\ principals' = create_principal_count(principals)
    /\ keyCount' = (principals :> 0) @@ keyCount
    /\ proc' = (principals :> [Idle EXCEPT !.pc = "attacker"]) @@ proc
    /\ UNCHANGED <<badSet, pki, attackerSteps, World, clientDone, serverDone,
                   keypairs, created, nonces, call>>

\* the attacker is in its inner loop
attacker_running ==
    /\ me # -1
    /\ proc[me].pc = "attacker"
    /\ attackerSteps < MaxAttackerSteps

attacker_abort(at) ==
    /\ proc' = [proc EXCEPT ![me] = Aborted("attacker_aborted", at)]
    /\ World' = World

attacker_rest ==
    <<badSet, principals, pki, me, clientDone, serverDone, nonces, call>>

\* case 0 without the net_send of the private key
attacker_case0_keeps_private(info) ==
    /\ attacker_running
    /\ keyCount[me] < MaxKeys
    /\ bad(me)
    /\ LET id == keyCount[me]
           pk == keypair_get_public_key(me, id, info)
       IN  /\ World' = net_send(World, pk)
           /\ keyCount' = create_keypair_count(keyCount, me)
           /\ keypairs' = keypairs \cup {<<me, id>>}
           /\ created' = created + 1
    /\ attackerSteps' = attackerSteps + 1
    /\ UNCHANGED <<attacker_rest, proc>>

\* case 0: bad principals leak private keys
attacker_case0(info) ==
    /\ attacker_running
    /\ keyCount[me] < MaxKeys
    /\ bad(me)
    /\ LET id == keyCount[me]
           sk == keypair_get_private_key(me, id, info)
           pk == keypair_get_public_key(me, id, info)
       IN  /\ World' = net_send(net_send(World, pk), sk)
           /\ keyCount' = create_keypair_count(keyCount, me)
           /\ keypairs' = keypairs \cup {<<me, id>>}
           /\ created' = created + 1
    /\ attackerSteps' = attackerSteps + 1
    /\ UNCHANGED <<attacker_rest, proc>>

\* case 1: anyone can publish arbitrary data items
attacker_case1(data) ==
    /\ attacker_running
    /\ World' = net_send(World, create_data_item(data))
    /\ attackerSteps' = attackerSteps + 1
    /\ UNCHANGED <<attacker_rest, proc, keyCount, keypairs, created>>

\* case 2: anyone can create pairs of public items
attacker_case2(first, second) ==
    /\ attacker_running
    /\ first \in net_receive /\ second \in net_receive
    /\ Depth(create_pair(first, second)) <= MaxDepth
    /\ World' = net_send(World, create_pair(first, second))
    /\ attackerSteps' = attackerSteps + 1
    /\ UNCHANGED <<attacker_rest, proc, keyCount, keypairs, created>>

\* case 3: anyone can encrypt a public item with a published key
attacker_case3(key, payload) ==
    /\ attacker_running
    /\ key \in net_receive /\ payload \in net_receive
    /\ IF IsAbort(check_is_key(key)) THEN attacker_abort("check_is_key")
       ELSE IF IsAbort(encrypt(key, payload)) THEN attacker_abort("encrypt")
       ELSE /\ Depth(encrypt(key, payload)) <= MaxDepth
            /\ World' = net_send(World, encrypt(key, payload))
            /\ proc' = proc
    /\ attackerSteps' = attackerSteps + 1
    /\ UNCHANGED <<attacker_rest, keyCount, keypairs, created>>

\* case 4: anyone can deconstruct a public pair
attacker_case4(pair) ==
    /\ attacker_running
    /\ pair \in net_receive
    /\ IF IsAbort(pair_get_first(pair)) THEN attacker_abort("pair_get_first")
       ELSE IF IsAbort(pair_get_second(pair)) THEN attacker_abort("pair_get_second")
       ELSE /\ World' = net_send(net_send(World, pair_get_first(pair)),
                                 pair_get_second(pair))
            /\ proc' = proc
    /\ attackerSteps' = attackerSteps + 1
    /\ UNCHANGED <<attacker_rest, keyCount, keypairs, created>>

\* case 5: anyone can decrypt a public item with a published private key
attacker_case5(key, package) ==
    /\ attacker_running
    /\ key \in net_receive /\ package \in net_receive
    /\ IF IsAbort(check_is_key(key)) THEN attacker_abort("check_is_key")
       ELSE IF IsAbort(decrypt(key, package)) THEN attacker_abort("decrypt")
       ELSE /\ World' = net_send(World, decrypt(key, package))
            /\ proc' = proc
    /\ attackerSteps' = attackerSteps + 1
    /\ UNCHANGED <<attacker_rest, keyCount, keypairs, created>>

attacker ==
    \/ attacker_create_principal
    \/ \E info \in InfoChoices : attacker_case0(info)
    \/ \E data \in DataChoices : attacker_case1(data)
    \/ \E first \in World, second \in World : attacker_case2(first, second)
    \/ \E key \in World, payload \in World : attacker_case3(key, payload)
    \/ \E pair \in World : attacker_case4(pair)
    \/ \E key \in World, package \in World : attacker_case5(key, package)

Next ==
    \/ protocol_principal
    \/ \E client \in DOMAIN pki, server \in DOMAIN pki : client_send1(client, server)
    \/ \E client \in DOMAIN pki, i4 \in World : client_receive(client, i4)
    \/ \E server \in DOMAIN pki, i1 \in World : server_receive1(server, i1)
    \/ \E server \in DOMAIN pki, i1 \in World : server_receive2(server, i1)
    \/ attacker

Spec == Init /\ [][Next]_vars

(* ------------------------ the attacker on its own ---------------------- *)

\* Items of protocol runs between principals 0, 1 and 2: encryption keys,
\* nonces, and the three messages for several pairs of peers.
CorpusKey(p, pub) == key_item(p, 0, pub, int_pair(0, 0))

CorpusClientNonce(c, s) == client_nonce(c, 1, s)

CorpusServerNonce(c, s) == server_nonce(s, 1, c, CorpusClientNonce(c, s))

CorpusMessage1(c, s) ==
    encrypt(CorpusKey(s, TRUE),
            create_pair(create_data_item(c), CorpusClientNonce(c, s)))

CorpusMessage2(c, s) ==
    server_message2(s, c, CorpusKey(c, TRUE), CorpusClientNonce(c, s),
                    CorpusServerNonce(c, s))

CorpusMessage3(c, s) == encrypt(CorpusKey(s, TRUE), CorpusServerNonce(c, s))

\* client 1 with server 2, client 1 with server 0, client 0 with server 2
Corpus ==
    {CorpusKey(0, FALSE), CorpusKey(2, TRUE),
     CorpusMessage1(1, 2), CorpusMessage2(1, 2),
     CorpusMessage1(1, 0),
     CorpusMessage2(0, 2), CorpusMessage3(0, 2)}

\* attacker() requires world(mypub) &*& principals(0)
InitAttacker ==
    /\ badSet \in SUBSET (0 .. MaxPrincipals - 1)
    /\ principals = 0
    /\ keyCount = << >>
    /\ pki = << >>
    /\ proc = << >>
    /\ me = -1
    /\ attackerSteps = 0
    /\ World = {i \in Corpus : mypub(i)}
    /\ clientDone = {}
    /\ serverDone = {}
    /\ keypairs = {}
    /\ created = 0
    /\ nonces = << >>
    /\ call = NoCall

SpecAttacker == InitAttacker /\ [][attacker]_vars

(* -------------------------- the roles on their own --------------------- *)

\* Items of earlier sessions, in which every principal made key pair 1: the
\* public keys, a leaked private key, messages 1, 2 and 3 of client 1 with
\* server 2, message 1 of client 1 for server 0 and the same payload encrypted
\* again for server 2, a message 1 that carries a public key as its nonce, a
\* message 1 whose payload is a data item, and message 2 of server 0.
RoleCorpus ==
    {CorpusKey(p, TRUE) : p \in 0 .. MaxPrincipals - 1}
      \cup {CorpusKey(0, FALSE),
            CorpusMessage1(1, 2), CorpusMessage2(1, 2), CorpusMessage3(1, 2),
            CorpusMessage1(1, 0), CorpusMessage2(1, 0),
            encrypt(CorpusKey(2, TRUE),
                    create_pair(create_data_item(1), CorpusClientNonce(1, 0))),
            encrypt(CorpusKey(2, TRUE),
                    create_pair(create_data_item(1), CorpusKey(0, TRUE))),
            encrypt(CorpusKey(2, TRUE), create_data_item(1))}

\* client() and server() require world(mypub), principal(me, _) and the key
\* pair of me: every principal has its encryption key pair 0 and key pair 1
InitRoles ==
    /\ badSet \in SUBSET (0 .. MaxPrincipals - 1)
    /\ principals = MaxPrincipals
    /\ keyCount = [p \in 0 .. MaxPrincipals - 1 |-> 2]
    /\ pki = [p \in 0 .. MaxPrincipals - 1 |-> 0]
    /\ proc = [p \in 0 .. MaxPrincipals - 1 |-> Idle]
    /\ me = -1
    /\ attackerSteps = 0
    /\ World = {i \in RoleCorpus : mypub(i)}
    /\ clientDone = {}
    /\ serverDone = {}
    /\ keypairs = (0 .. MaxPrincipals - 1) \X {0, 1}
    /\ created = 2 * MaxPrincipals
    /\ nonces = << >>
    /\ call = NoCall

NextRoles ==
    \/ \E client \in DOMAIN pki, server \in DOMAIN pki : client_send1(client, server)
    \/ \E client \in DOMAIN pki, i4 \in World : client_receive(client, i4)
    \/ \E server \in DOMAIN pki, i1 \in World : server_receive1(server, i1)
    \/ \E server \in DOMAIN pki, i1 \in World : server_receive2(server, i1)

SpecRoles == InitRoles /\ [][NextRoles]_vars

(* ---------------------- the item functions on their own ---------------- *)

\* the key infos of the protocol: none, an encryption key, a client nonce for
\* a server, a server nonce for a client
ItemInfos ==
    {0, int_pair(0, 0)}
      \cup {int_pair(1, p) : p \in 0 .. MaxItemId}
      \cup {server_nonce_info(c, client_nonce(c, 1, MaxItemId)) : c \in 0 .. MaxItemId}

ItemKeys ==
    {key_item(creator, id, isPublicKey, info) :
        creator \in 0 .. MaxItemId, id \in 0 .. MaxItemId,
        isPublicKey \in BOOLEAN, info \in ItemInfos}

\* a data item, a private and a public encryption key, a client nonce
ItemAtoms ==
    {data_item(0), CorpusKey(0, FALSE), CorpusKey(MaxItemId, TRUE),
     CorpusClientNonce(0, MaxItemId)}

\* the three messages between any two principals, and the atoms encrypted
ItemMessages ==
    UNION {{CorpusMessage1(c, s), CorpusMessage2(c, s), CorpusMessage3(c, s)} :
              c \in 0 .. MaxItemId, s \in 0 .. MaxItemId}
      \cup {encrypt(CorpusKey(0, TRUE), a) : a \in ItemAtoms}

\* the components of the pairs: the atoms, a ciphertext and a pair
ItemParts ==
    ItemAtoms
      \cup {CorpusMessage1(0, MaxItemId),
            pair_item(data_item(0), CorpusClientNonce(0, MaxItemId))}

\* the items a call's first argument is drawn from
Items ==
    ItemKeys
      \cup {data_item(d) : d \in 0 .. MaxItemId}
      \cup {pair_item(a, b) : a \in ItemParts, b \in ItemParts}
      \cup ItemMessages

\* the items a call's second argument is drawn from
Items2 ==
    ItemAtoms
      \cup {key_item(MaxItemId, 0, FALSE, int_pair(0, 0)),
            key_item(0, 0, FALSE, 0), key_item(0, 1, FALSE, int_pair(0, 0)),
            pair_item(data_item(0), data_item(0)),
            pair_item(data_item(0), CorpusClientNonce(0, MaxItemId))}
      \cup ItemMessages

\* a boolean and an integer result
bool_result(b) == [tag |-> "bool", val |-> b]

protocolVars ==
    <<principals, keyCount, pki, proc, me, attackerSteps, World, clientDone,
      serverDone, keypairs, created, nonces>>

\* any two items, under any bad
InitItems ==
    /\ badSet \in SUBSET (0 .. MaxPrincipals - 1)
    /\ principals = 0
    /\ keyCount = << >>
    /\ pki = << >>
    /\ proc = << >>
    /\ me = -1
    /\ attackerSteps = 0
    /\ World = {}
    /\ clientDone = {}
    /\ serverDone = {}
    /\ keypairs = {}
    /\ created = 0
    /\ nonces = << >>
    /\ \E item1 \in Items, item2 \in Items2 :
          call = [NoCall EXCEPT !.item1 = item1, !.item2 = item2]

\* the call returns
returns(fn, result) ==
    /\ call' = [call EXCEPT !.fn = fn, !.result = result]
    /\ UNCHANGED <<badSet, protocolVars>>

call_check_is_key ==
    /\ call.fn = ""
    /\ returns("check_is_key", check_is_key(call.item1))

call_item_get_data ==
    /\ call.fn = ""
    /\ returns("item_get_data", item_get_data(call.item1))

call_pair_get_first ==
    /\ call.fn = ""
    /\ returns("pair_get_first", pair_get_first(call.item1))

call_pair_get_second ==
    /\ call.fn = ""
    /\ returns("pair_get_second", pair_get_second(call.item1))

\* decrypt requires key(key, _, _, _, _)
call_decrypt ==
    /\ call.fn = ""
    /\ call.item1.tag = "key"
    /\ returns("decrypt", decrypt(call.item1, call.item2))

call_item_equals ==
    /\ call.fn = ""
    /\ returns("item_equals", bool_result(item_equals(call.item1, call.item2)))

call_mypub ==
    /\ call.fn = ""
    /\ returns("mypub", bool_result(mypub(call.item1)))

\* encrypt requires key(key, _, _, _, _)
call_encrypt ==
    /\ call.fn = ""
    /\ call.item1.tag = "key"
    /\ returns("encrypt", encrypt(call.item1, call.item2))

call_create_pair ==
    /\ call.fn = ""
    /\ returns("create_pair", create_pair(call.item1, call.item2))

\* decrypt, with the private key of the key pair of item1, of what encrypt
\* returned
call_decrypt_result ==
    /\ call.fn = "encrypt"
    /\ ~IsAbort(call.result)
    /\ returns("encrypt;decrypt",
           decrypt(keypair_get_private_key(call.item1.creator, call.item1.id,
                                           call.item1.info),
                   call.result))

\* pair_get_first of what create_pair returned
call_pair_get_first_result ==
    /\ call.fn = "create_pair"
    /\ returns("create_pair;pair_get_first", pair_get_first(call.result))

\* pair_get_second of what create_pair returned
call_pair_get_second_result ==
    /\ call.fn = "create_pair"
    /\ returns("create_pair;pair_get_second", pair_get_second(call.result))

NextItems ==
    \/ call_check_is_key
    \/ call_item_get_data
    \/ call_pair_get_first
    \/ call_pair_get_second
    \/ call_decrypt
    \/ call_item_equals
    \/ call_mypub
    \/ call_encrypt
    \/ call_create_pair
    \/ call_decrypt_result
    \/ call_pair_get_first_result
    \/ call_pair_get_second_result

SpecItems == InitItems /\ [][NextItems]_vars

(* ------------------------------- claims -------------------------------- *)

\* C1 (world-soundness): in every reachable state every item of the world
\* satisfies mypub.
WorldSound == \A i \in World : mypub(i)

\* a server iteration ended, the attacker acted, and the world holds a
\* ciphertext whose payload is not public
WorldSoundWitness ==
    /\ serverDone # {}
    /\ attackerSteps > 0
    /\ \E i \in World : i.tag = "enc" /\ ~mypub(i.payload)

\* C2 (client-side secrecy): for every client session that reached the end of
\* client() between principals that are not bad, neither its client nonce nor
\* the server nonce it extracted is public or in the world.
ClientSecrecy ==
    \A d \in clientDone :
        (~bad(d.client) /\ ~bad(d.server)) =>
            /\ ~mypub(d.clientNonce) /\ ~mypub(d.serverNonce)
            /\ d.clientNonce \notin World /\ d.serverNonce \notin World

\* a client session ended while a bad principal, the attacker's, has leaked a
\* private key of its own
ClientSecrecyWitness ==
    /\ clientDone # {}
    /\ me # -1 /\ bad(me)
    /\ \E k \in World : k.tag = "key" /\ ~k.isPublicKey /\ k.creator = me

\* C3 (server-side secrecy): for every server iteration that passed the
\* comparison with its nonce, with a server and a named client that are not
\* bad, neither the client nonce received nor the server nonce generated is
\* public or in the world.
ServerSecrecy ==
    \A d \in serverDone :
        (~bad(d.server) /\ ~bad(d.client)) =>
            /\ ~mypub(d.clientNonce) /\ ~mypub(d.serverNonce)
            /\ d.clientNonce \notin World /\ d.serverNonce \notin World

\* a server iteration ended after the attacker used up its steps
ServerSecrecyWitness ==
    /\ \E d \in serverDone : ~bad(d.server) /\ ~bad(d.client)
    /\ attackerSteps = MaxAttackerSteps

\* C4 (authentication): for every server iteration that passed the comparison
\* with its nonce, with a server and a named client that are not bad, that
\* client ended a session for that server with the same client nonce and the
\* same server nonce.
Authentication ==
    \A d \in serverDone :
        (~bad(d.server) /\ ~bad(d.client)) =>
            \E c \in clientDone :
                /\ c.client = d.client /\ c.server = d.server
                /\ c.clientNonce = d.clientNonce
                /\ c.serverNonce = d.serverNonce

\* a server iteration ended for a client that is not bad, beside an attacker
\* that has leaked a key pair
AuthenticationWitness ==
    \E d \in serverDone :
        /\ ~bad(d.server) /\ ~bad(d.client)
        /\ me # -1 /\ keyCount[me] >= 1

\* a client nonce: a private key whose info is int_pair(1, server)
IsClientNonceFor(i, server) ==
    i.tag = "key" /\ ~i.isPublicKey /\ i.info = int_pair(1, server)

\* C5 (secrecy is gated on honesty): a client nonce tagged for a bad server
\* is public, so it may be in the world with world-soundness intact.
GatedSecrecy ==
    \A i \in World : \A server \in badSet :
        IsClientNonceFor(i, server) => mypub(i)

\* the attacker has extracted, from message 1, the nonce that a client that
\* is not bad made for a bad server
GatedSecrecyWitness ==
    /\ \E i \in World : \E server \in badSet :
           IsClientNonceFor(i, server) /\ ~bad(i.creator)
    /\ \A i \in World : mypub(i)
    /\ attackerSteps > 0

\* C6 (the attacker alone): no step of the attacker's loop inserts an item
\* that fails mypub into the world.
AttackerSound == [][\A i \in World' \ World : mypub(i)]_vars

\* the attacker has decrypted a message and taken the payload apart
AttackerSoundWitness ==
    /\ attackerSteps = MaxAttackerSteps
    /\ \E e \in World, k \in World :
           /\ e.tag = "enc" /\ k.tag = "key"
           /\ ~IsAbort(decrypt(k, e))
           /\ decrypt(k, e).tag = "pair"
           /\ decrypt(k, e).first \in World
           /\ decrypt(k, e).second \in World

\* C7 (monotone world): no step removes an item from the world.
Monotone == [][World \subseteq World']_vars

\* roles have sent, the attacker has sent, and a role has aborted
MonotoneWitness ==
    /\ Cardinality(World) >= 5
    /\ attackerSteps > 0
    /\ \E p \in DOMAIN proc : proc[p].pc \in {"client_aborted", "server_aborted"}

KeysUnique ==
    /\ Cardinality(keypairs) = created
    /\ \A m \in DOMAIN nonces, n \in DOMAIN nonces :
          m # n => /\ nonces[m] # nonces[n]
                   /\ <<nonces[m].creator, nonces[m].id>> #
                          <<nonces[n].creator, nonces[n].id>>

\* two sessions have started, every principal has created two key pairs
KeysUniqueWitness ==
    /\ Len(nonces) = 2
    /\ principals = MaxPrincipals
    /\ \A p \in DOMAIN keyCount : keyCount[p] >= 2

\* the payload the server's key decrypts from i1 is a pair of a data item and
\* a key
WellFormed1(server, i1) ==
    /\ i1.payload.tag = "pair"
    /\ i1.payload.first.tag = "data"
    /\ i1.payload.second.tag = "key"

\* i1 is a ciphertext for the server's encryption key
ForServer(server, i1) ==
    /\ i1.tag = "enc"
    /\ i1.keyCreator = server /\ i1.id = pki[server] /\ i1.info = int_pair(0, 0)

\* C10 (malformed first message): when the item the server receives first
\* decrypts to something that is not a pair of a data item and a key, the
\* server aborts: no nonce key pair, no message 2, no session.
MalformedAborts ==
    [][\A server \in DOMAIN pki : \A i1 \in World :
          (/\ ForServer(server, i1)
           /\ ~WellFormed1(server, i1)
           /\ server_receive1(server, i1)) =>
              /\ proc'[server].pc = "server_aborted"
              /\ proc'[server].at \in
                     {"pair_get_first", "item_get_data", "pair_get_second", "check_is_key"}
              /\ World' = World
              /\ keyCount' = keyCount /\ nonces' = nonces
              /\ serverDone' = serverDone]_vars

\* a server has aborted in check_is_key, on the pair that its key decrypts
\* from a ciphertext
MalformedAbortsWitness ==
    \E server \in DOMAIN pki : \E i1 \in World :
        /\ proc[server].pc = "server_aborted"
        /\ proc[server].at = "check_is_key"
        /\ ForServer(server, i1)
        /\ ~WellFormed1(server, i1)

\* the items a and b are of the same kind and agree on every field
RECURSIVE SameItem(_, _)
SameItem(a, b) ==
    /\ a.tag = b.tag
    /\ CASE a.tag = "key" ->
               /\ a.creator = b.creator /\ a.id = b.id
               /\ a.isPublicKey = b.isPublicKey /\ a.info = b.info
         [] a.tag = "data" -> a.id = b.id
         [] a.tag = "enc" ->
               /\ a.keyCreator = b.keyCreator /\ a.id = b.id /\ a.info = b.info
               /\ SameItem(a.payload, b.payload)
         [] a.tag = "pair" ->
               SameItem(a.first, b.first) /\ SameItem(a.second, b.second)
         [] OTHER -> FALSE

\* C11 (extractors): pair_get_first, pair_get_second, item_get_data,
\* check_is_key and decrypt abort on an item of another kind than the one they
\* expect, and on an item of that kind return exactly its field: the
\* component, the data, the key with its four fields, the payload of the
\* ciphertext made for the private key given.
ExtractorsExact ==
    LET i == call.item1
        r == call.result
    IN  /\ call.fn = "pair_get_first" =>
              IF i.tag = "pair" THEN r = i.first ELSE r = Abort
        /\ call.fn = "pair_get_second" =>
              IF i.tag = "pair" THEN r = i.second ELSE r = Abort
        /\ call.fn = "item_get_data" =>
              IF i.tag = "data" THEN r.tag = "int" /\ r.val = i.id ELSE r = Abort
        /\ call.fn = "check_is_key" =>
              IF i.tag = "key"
              THEN /\ r.tag = "key"
                   /\ <<r.creator, r.id, r.isPublicKey, r.info>> =
                          <<i.creator, i.id, i.isPublicKey, i.info>>
              ELSE r = Abort
        /\ call.fn = "decrypt" =>
              LET e == call.item2
              IN  /\ e.tag # "enc" => r = Abort
                  /\ (/\ e.tag = "enc" /\ ~i.isPublicKey
                      /\ <<e.keyCreator, e.id, e.info>> = <<i.creator, i.id, i.info>>)
                         => r = e.payload

\* pair_get_second has aborted on a ciphertext
ExtractorsExactWitness ==
    /\ call.fn = "pair_get_second"
    /\ call.item1.tag = "enc"
    /\ IsAbort(call.result)

\* C12 (structural equality): item_equals(a, a) holds, item_equals(a, b) is
\* item_equals(b, a), it holds exactly when a and b are of the same kind with
\* equal fields, recursively, and never for two keys whose (creator, id) differ.
EqualsStructural ==
    call.fn = "item_equals" =>
        LET a == call.item1
            b == call.item2
            r == call.result.val
        IN  /\ r = SameItem(a, b)
            /\ r = item_equals(b, a)
            /\ item_equals(a, a) /\ item_equals(b, b)
            /\ (/\ a.tag = "key" /\ b.tag = "key"
                /\ <<a.creator, a.id>> # <<b.creator, b.id>>) => ~r

\* item_equals has told apart two ciphertexts for the same key
EqualsStructuralWitness ==
    /\ call.fn = "item_equals"
    /\ call.item1.tag = "enc" /\ call.item2.tag = "enc"
    /\ <<call.item1.keyCreator, call.item1.id, call.item1.info>> =
           <<call.item2.keyCreator, call.item2.id, call.item2.info>>
    /\ ~call.result.val

\* the item i and every item inside it
RECURSIVE Subitems(_)
Subitems(i) ==
    {i} \cup
        CASE i.tag = "enc" -> Subitems(i.payload)
          [] i.tag = "pair" -> Subitems(i.first) \cup Subitems(i.second)
          [] OTHER -> {}

\* the items of a run: those sent and what they contain, the nonces, and the
\* private encryption keys of the protocol principals
RunItems ==
    UNION {Subitems(i) : i \in World}
      \cup {nonces[n] : n \in DOMAIN nonces}
      \cup {clientPrivateKey(p) : p \in DOMAIN pki}

RunKeys == {i \in RunItems : i.tag = "key"}

RunEncrypted == {i \in RunItems : i.tag = "enc"}

\* two ciphertexts are equal exactly when (keyCreator, id) and payload match
EncryptedEqualByIdentity ==
    \A e1 \in RunEncrypted, e2 \in RunEncrypted :
        item_equals(e1, e2) <=>
            /\ <<e1.keyCreator, e1.id>> = <<e2.keyCreator, e2.id>>
            /\ e1.payload = e2.payload

PairAndData ==
    call.fn = "mypub" =>
        LET i == call.item1
            r == call.result.val
        IN  /\ i.tag = "pair" => (r <=> (mypub(i.first) /\ mypub(i.second)))
            /\ i.tag = "data" => r

\* mypub has rejected a pair whose first component is public
PairAndDataWitness ==
    /\ call.fn = "mypub"
    /\ call.item1.tag = "pair"
    /\ mypub(call.item1.first) /\ ~mypub(call.item1.second)
    /\ ~call.result.val

\* C15 (classifier on keys): mypub of a key holds exactly when the key is a
\* public half, or its creator is bad, or its info is int_pair(1, owner) with
\* a bad owner, or its info is int_pair(2, int_pair(client, _)) with a bad
\* client.
KeyClassified ==
    call.fn = "mypub" =>
        LET i == call.item1
            r == call.result.val
        IN  i.tag = "key" =>
              (r <=> \/ i.isPublicKey
                     \/ i.creator \in badSet
                     \/ \E owner \in badSet : i.info = int_pair(1, owner)
                     \/ \E client \in badSet :
                            /\ int_left(i.info) = 2
                            /\ int_left(int_right(i.info)) = client)

\* mypub has rejected the private encryption key of a creator that is not bad
KeyClassifiedWitness ==
    /\ call.fn = "mypub"
    /\ call.item1.tag = "key"
    /\ ~call.item1.isPublicKey /\ call.item1.info = int_pair(0, 0)
    /\ ~bad(call.item1.creator)
    /\ ~call.result.val

\* k is the private key that the ciphertext e was made for
Opens(k, e) ==
    /\ k.tag = "key" /\ ~k.isPublicKey
    /\ e.tag = "enc"
    /\ <<e.keyCreator, e.id, e.info>> = <<k.creator, k.id, k.info>>

\* every ciphertext of the world w that a private key of w opens has a public
\* payload
OpenedArePublic(w) ==
    \A k \in w, e \in w : (Opens(k, e) /\ mypub(k) /\ mypub(e)) => mypub(e.payload)

\* C16 (decryption is sound for mypub): a public ciphertext made for a public
\* private key has a public payload, and what the attacker's decrypt step puts
\* into the world is public and is the payload of a ciphertext of the world
\* whose private key is in the world.
DecryptionSound ==
    [][/\ OpenedArePublic(World) /\ OpenedArePublic(World')
       /\ \A key \in World, package \in World :
             attacker_case5(key, package) =>
                 \A i \in World' \ World :
                     /\ mypub(i)
                     /\ \E k \in World, e \in World :
                            Opens(k, e) /\ i = e.payload]_vars

\* the attacker's first step has decrypted a message 1 and put its payload,
\* a pair, into the world
DecryptionSoundWitness ==
    /\ attackerSteps = 1
    /\ \E k \in World, e \in World :
          /\ Opens(k, e)
          /\ e.payload.tag = "pair"
          /\ e.payload \in World
          /\ e.payload.first \notin World

\* C17 (the client's messages are public): what client() sends first is the
\* public ciphertext, for the server's key, of the pair of the client's id and
\* its nonce, a nonce that is not public; what it sends last, after its
\* checks of a message received from the world, is the public ciphertext of
\* the server nonce it extracted.
ClientSendsPublic ==
    [][\A client \in DOMAIN pki :
          /\ (\E server \in DOMAIN pki : client_send1(client, server)) =>
                LET server == proc'[client].server
                    clientNonce == proc'[client].clientNonce
                IN  /\ ~mypub(clientNonce)
                    /\ World' = World \cup
                           {encrypted_item(server, pki[server], int_pair(0, 0),
                               pair_item(data_item(client), clientNonce))}
                    /\ \A i \in World' \ World : mypub(i)
          /\ (\E i4 \in World : client_receive(client, i4) /\ clientDone' # clientDone) =>
                LET server == proc[client].server
                IN  \E d \in clientDone' \ clientDone :
                      /\ World' = World \cup
                             {encrypted_item(server, pki[server], int_pair(0, 0),
                                 d.serverNonce)}
                      /\ \A i \in World' : mypub(i)]_vars

\* a client has ended a session: its message 3 is in the world and the
\* server nonce in it is not public
ClientSendsPublicWitness ==
    \E d \in clientDone :
        /\ encrypted_item(d.server, pki[d.server], int_pair(0, 0), d.serverNonce)
               \in World
        /\ ~mypub(d.serverNonce)
        /\ attackerSteps > 0

\* i4 is a ciphertext for the client's encryption key whose payload is
\* Pair(Data(server), Pair(clientNonce, _)), for the server and the nonce of
\* the client's session
Message2For(client, i4) ==
    /\ i4.tag = "enc"
    /\ <<i4.keyCreator, i4.id, i4.info>> = <<client, pki[client], int_pair(0, 0)>>
    /\ i4.payload.tag = "pair"
    /\ i4.payload.first = data_item(proc[client].server)
    /\ i4.payload.second.tag = "pair"
    /\ i4.payload.second.first = proc[client].clientNonce

\* C18 (the client's checks): client() sends message 3 and ends its session
\* only on an item that its private key decrypts to
\* Pair(Data(server), Pair(n, sn)) with its server's id and n its own nonce of
\* this session; on any other item it aborts, sends nothing, ends no session,
\* and does nothing afterwards.
ClientChecks ==
    [][\A client \in DOMAIN pki :
          /\ \A i4 \in World :
                client_receive(client, i4) =>
                    IF Message2For(client, i4)
                    THEN /\ proc'[client].pc = "free"
                         /\ clientDone' = clientDone \cup
                                {[client |-> client, server |-> proc[client].server,
                                  clientNonce |-> proc[client].clientNonce,
                                  serverNonce |-> i4.payload.second.second]}
                         /\ World' = World \cup
                                {encrypted_item(proc[client].server,
                                    pki[proc[client].server], int_pair(0, 0),
                                    i4.payload.second.second)}
                    ELSE /\ proc'[client].pc = "client_aborted"
                         /\ proc'[client].at # ""
                         /\ World' = World
                         /\ clientDone' = clientDone
          /\ proc[client].pc = "client_aborted" =>
                /\ proc'[client] = proc[client]
                /\ \A d \in clientDone' \ clientDone : d.client # client]_vars

\* one client has aborted on a nonce that is not its own, another on a server
\* id that is not its server's
ClientChecksWitness ==
    /\ \E client \in DOMAIN proc :
          proc[client].pc = "client_aborted" /\ proc[client].at = "item_equals"
    /\ \E client \in DOMAIN proc :
          proc[client].pc = "client_aborted" /\ proc[client].at = "server"

\* C19 (the server's message 2 is public): when server() gets past its first
\* block, the item received is a ciphertext for its key of Pair(Data(c), k)
\* with k a key, and what it sends is the public ciphertext, for a public key
\* of c, of Pair(Data(server), Pair(k, serverNonce)) with the nonce of a new
\* key pair of the server, whether c is bad or not.
ServerSendsPublic ==
    [][\A server \in DOMAIN pki : \A i1 \in World :
          (server_receive1(server, i1) /\ proc'[server].pc = "server2") =>
              LET c == proc'[server].client
                  k == proc'[server].clientNonce
                  serverNonce == proc'[server].serverNonce
              IN  /\ ForServer(server, i1)
                  /\ i1.payload = pair_item(data_item(c), k) /\ k.tag = "key"
                  /\ <<serverNonce.creator, serverNonce.id>> \notin keypairs
                  /\ serverNonce.creator = server /\ ~serverNonce.isPublicKey
                  /\ \E id \in 0 .. MaxKeys - 1 :
                        /\ c \in DOMAIN pki => id = pki[c]
                        /\ World' = World \cup
                               {encrypted_item(c, id, int_pair(0, 0),
                                   pair_item(data_item(server),
                                             pair_item(k, serverNonce)))}
                  /\ \A i \in World' \ World : mypub(i)]_vars

\* a server has answered a message 1 that names a bad client: its message 2
\* is in the world and its nonce is public
ServerSendsPublicWitness ==
    \E server \in DOMAIN proc :
        /\ proc[server].pc = "server2"
        /\ bad(proc[server].client)
        /\ mypub(proc[server].serverNonce)
        /\ \E i \in World :
              /\ i.tag = "enc" /\ i.keyCreator = proc[server].client
              /\ i.payload =
                     pair_item(data_item(server),
                         pair_item(proc[server].clientNonce, proc[server].serverNonce))

\* C20 (the server's last check): an iteration of server() reaches its end
\* only on an item that its private key decrypts to the nonce it made in this
\* iteration; on any other item it aborts and records no session.
ServerChecks ==
    [][\A server \in DOMAIN pki : \A i1 \in World :
          server_receive2(server, i1) =>
              /\ World' = World
              /\ IF ForServer(server, i1) /\ i1.payload = proc[server].serverNonce
                 THEN /\ proc'[server].pc = "server1"
                      /\ serverDone' = serverDone \cup
                             {[server |-> server, client |-> proc[server].client,
                               clientNonce |-> proc[server].clientNonce,
                               serverNonce |-> proc[server].serverNonce]}
                 ELSE /\ proc'[server].pc = "server_aborted"
                      /\ proc'[server].at \in {"decrypt", "item_equals"}
                      /\ serverDone' = serverDone]_vars

\* a server has aborted on a message 3 that carries the nonce of another
\* iteration
ServerChecksWitness ==
    \E server \in DOMAIN proc : \E i1 \in World :
        /\ proc[server].pc = "server_aborted"
        /\ proc[server].at = "item_equals"
        /\ ForServer(server, i1)
        /\ i1.payload.tag = "key" /\ int_left(i1.payload.info) = 2
        /\ i1.payload.creator = server

\* C21 (origin of the client nonce): when a server that is not bad ends an
\* iteration for a named client that is not bad, the client nonce it holds is
\* a private key whose creator is that client and whose info is
\* int_pair(1, server).
NonceOrigin ==
    \A d \in serverDone :
        (~bad(d.server) /\ ~bad(d.client)) =>
            /\ d.clientNonce.tag = "key"
            /\ ~d.clientNonce.isPublicKey
            /\ d.clientNonce.creator = d.client
            /\ d.clientNonce.info = int_pair(1, d.server)

\* a server has ended an iteration for a client that is not bad, in a world
\* that holds a message 1 for this server that names this client and carries
\* a key of another principal
NonceOriginWitness ==
    \E d \in serverDone : \E i1 \in World :
        /\ ~bad(d.server) /\ ~bad(d.client)
        /\ ForServer(d.server, i1)
        /\ i1.payload.tag = "pair"
        /\ i1.payload.first = data_item(d.client)
        /\ i1.payload.second.tag = "key"
        /\ i1.payload.second.creator # d.client

\* C22 (the server nonce's info): the nonce that server() makes in an
\* iteration is the private half of a new key pair of the server whose info
\* is int_pair(2, int_pair(client, int_pair(creator, int_pair(half, info))))
\* for the client id and the creator, half and info of the client nonce
\* received in this iteration, and int_left and int_right recover each of
\* these components from it.
ServerNonceTagged ==
    [][\A server \in DOMAIN pki : \A i1 \in World :
          (server_receive1(server, i1) /\ proc'[server].pc = "server2") =>
              LET c == i1.payload.first.id
                  k == i1.payload.second
                  half == IF k.isPublicKey THEN 1 ELSE 0
                  serverNonce == proc'[server].serverNonce
                  info == serverNonce.info
              IN  /\ proc'[server].client = c /\ proc'[server].clientNonce = k
                  /\ serverNonce.tag = "key" /\ ~serverNonce.isPublicKey
                  /\ serverNonce.creator = server
                  /\ serverNonce.id = keyCount[server]
                  /\ info = int_pair(2, int_pair(c, int_pair(k.creator,
                                int_pair(half, k.info))))
                  /\ int_left(info) = 2
                  /\ int_left(int_right(info)) = c
                  /\ int_left(int_right(int_right(info))) = k.creator
                  /\ int_left(int_right(int_right(int_right(info)))) = half
                  /\ int_right(int_right(int_right(int_right(info)))) = k.info]_vars

\* a server has made its nonce for a client nonce that is a public key
ServerNonceTaggedWitness ==
    \E server \in DOMAIN proc :
        /\ proc[server].pc = "server2"
        /\ proc[server].clientNonce.isPublicKey
        /\ proc[server].clientNonce.creator # proc[server].client
        /\ proc[server].serverNonce \in {nonces[n] : n \in DOMAIN nonces}

\* C23 (create_principal): the new principal's id is the count before the
\* call, an id no principal has; the count grows by exactly one; the new
\* principal starts with key count 0, so the first key pair it creates has id
\* 0; the other principals keep their key counts; and the principals of a run
\* are 0, 1, ..., count - 1, pairwise distinct.
PrincipalsFresh ==
    [][/\ (protocol_principal \/ attacker_create_principal) =>
             /\ principals' = principals + 1
             /\ principals \notin DOMAIN keyCount
             /\ DOMAIN keyCount' = DOMAIN keyCount \cup {principals}
             /\ \A p \in DOMAIN keyCount : keyCount'[p] = keyCount[p]
             /\ \/ keyCount'[principals] = 0 /\ me' = principals
                \/ /\ keyCount'[principals] = 1
                   /\ principals \in DOMAIN pki' /\ pki'[principals] = 0
                   /\ keypairs' \ keypairs = {<<principals, 0>>}
       /\ principals' \in {principals, principals + 1}
       /\ DOMAIN keyCount' = 0 .. principals' - 1
       /\ DOMAIN proc' = 0 .. principals' - 1]_vars

\* the attacker's principal and two protocol principals exist, and each has
\* created a key pair
PrincipalsFreshWitness ==
    /\ principals = MaxPrincipals
    /\ me = 0
    /\ DOMAIN pki = 1 .. MaxPrincipals - 1
    /\ \A p \in DOMAIN keyCount : keyCount[p] >= 1

\* C24 (create_keypair): the id of the new key pair is the principal's key
\* count before the call, that count grows by exactly one and no other
\* principal's count changes; the keys of the run taken from the new pair
\* have its creator, id and info, and two different ones are its two halves.
KeypairFresh ==
    [][created' # created =>
          /\ created' = created + 1
          /\ \E p \in DOMAIN keyCount' :
                LET before == IF p \in DOMAIN keyCount THEN keyCount[p] ELSE 0
                    halves == {k \in RunKeys' : k.creator = p /\ k.id = before}
                IN  /\ <<p, before>> \notin keypairs
                    /\ keypairs' = keypairs \cup {<<p, before>>}
                    /\ keyCount'[p] = before + 1
                    /\ \A q \in DOMAIN keyCount \ {p} : keyCount'[q] = keyCount[q]
                    /\ halves # {}
                    /\ \A k1 \in halves, k2 \in halves :
                          /\ k1.info = k2.info
                          /\ k1 # k2 => k1.isPublicKey # k2.isPublicKey]_vars

\* the attacker has created two key pairs, both halves of the second are in
\* the world, and another principal has created one key pair
KeypairFreshWitness ==
    /\ me # -1 /\ keyCount[me] = 2
    /\ \E k1 \in World, k2 \in World :
          /\ k1.tag = "key" /\ k2.tag = "key"
          /\ <<k1.creator, k1.id>> = <<me, 1>> /\ <<k2.creator, k2.id>> = <<me, 1>>
          /\ k1.isPublicKey /\ ~k2.isPublicKey
    /\ \E p \in DOMAIN keyCount : keyCount[p] = 1

\* C25 (key polarity and key matching): encrypt returns the ciphertext for
\* the key's (creator, id, info) when the key is a public half and aborts on
\* a private half; decrypt returns the payload when the key is a private half
\* and the item is a ciphertext for the key's (creator, id, info), and aborts
\* otherwise; neither changes its arguments.
PolarityAndMatch ==
    [][LET key == call.item1
           r == call'.result
       IN  /\ call'.item1 = call.item1 /\ call'.item2 = call.item2
           /\ call_encrypt =>
                 IF key.isPublicKey
                 THEN r = encrypted_item(key.creator, key.id, key.info, call.item2)
                 ELSE r = Abort
           /\ call_decrypt =>
                 LET e == call.item2
                 IN  IF /\ ~key.isPublicKey
                        /\ e.tag = "enc"
                        /\ <<e.keyCreator, e.id, e.info>> =
                               <<key.creator, key.id, key.info>>
                     THEN r = e.payload
                     ELSE r = Abort]_vars

\* decrypt has aborted on a ciphertext made for another private key
PolarityAndMatchWitness ==
    /\ call.fn = "decrypt"
    /\ ~call.item1.isPublicKey
    /\ call.item2.tag = "enc"
    /\ <<call.item2.keyCreator, call.item2.info>> =
           <<call.item1.creator, call.item1.info>>
    /\ call.item2.id # call.item1.id
    /\ IsAbort(call.result)

\* C26 (round trips): decrypt, with the private half of a key pair, of what
\* encrypt returned for the public half and an item p is p; pair_get_first of
\* create_pair(a, b) is a and pair_get_second of it is b.
RoundTrips ==
    /\ call.fn = "encrypt;decrypt" => call.result = call.item2
    /\ call.fn = "create_pair;pair_get_first" => call.result = call.item1
    /\ call.fn = "create_pair;pair_get_second" => call.result = call.item2

\* a ciphertext has come back from encrypt and decrypt with a key pair that
\* is not the one it was made for
RoundTripsWitness ==
    /\ call.fn = "encrypt;decrypt"
    /\ call.item2.tag = "enc"
    /\ <<call.item2.keyCreator, call.item2.id>> # <<call.item1.creator, call.item1.id>>
    /\ call.result = call.item2

\* the private keys that are items of the world w
PrivateKeysIn(w) == {k \in w : k.tag = "key" /\ ~k.isPublicKey}

\* C27 (leakage): when the attacker's principal, which is bad there, creates
\* a key pair in case 0, with any info, both halves are in the world after
\* that step; a private key that enters the world in a step of the attacker
\* and was created by its principal has a bad creator; and no step of a
\* client or a server puts a private key into the world.
Leakage ==
    [][/\ \A info \in InfoChoices :
             attacker_case0(info) =>
                 /\ bad(me)
                 /\ key_item(me, keyCount[me], TRUE, info) \in World'
                 /\ key_item(me, keyCount[me], FALSE, info) \in World'
       /\ \A k \in PrivateKeysIn(World') \ PrivateKeysIn(World) :
             /\ attackerSteps' = attackerSteps + 1
             /\ k.creator = me => bad(k.creator)
             /\ k.creator # me => mypub(k)]_vars

\* the attacker's bad principal has leaked a key pair whose info is that of a
\* client nonce, beside a session of principals that are not bad
LeakageWitness ==
    /\ me # -1 /\ bad(me)
    /\ \E k1 \in World, k2 \in World :
          /\ k1.tag = "key" /\ k2.tag = "key"
          /\ <<k1.creator, k1.id, k1.info>> = <<k2.creator, k2.id, k2.info>>
          /\ k1.creator = me /\ int_left(k1.info) = 1
          /\ k1.isPublicKey /\ ~k2.isPublicKey
    /\ nonces # << >>

\* the item i and what it holds outside any ciphertext: the components of
\* pairs, recursively
RECURSIVE InTheClear(_)
InTheClear(i) ==
    {i} \cup
        (IF i.tag = "pair"
         THEN InTheClear(i.first) \cup InTheClear(i.second)
         ELSE {})

\* k is the nonce that a principal that is not bad made for a peer that is
\* not bad: a client nonce for a server, or a server nonce for a client
HonestNonce(k) ==
    /\ k.tag = "key" /\ ~k.isPublicKey /\ ~bad(k.creator)
    /\ \/ int_left(k.info) = 1 /\ ~bad(int_right(k.info))
       \/ int_left(k.info) = 2 /\ ~bad(int_left(int_right(k.info)))

\* C28 (long-term key secrecy): the private encryption key, of info
\* int_pair(0, 0), of a principal that is not bad is never in the world, and
\* a nonce that a principal that is not bad made for a peer that is not bad is
\* never an item of the world nor a component of a pair of the world: it is
\* there inside ciphertexts only.
LongTermSecrecy ==
    \A i \in World :
        /\ (i.tag = "key" /\ ~i.isPublicKey /\ i.info = int_pair(0, 0)) =>
               bad(i.creator)
        /\ \A k \in InTheClear(i) : ~HonestNonce(k)

\* a session has ended, the attacker has used its steps, and the world holds
\* both nonces of the session inside a ciphertext
LongTermSecrecyWitness ==
    /\ attackerSteps = MaxAttackerSteps
    /\ \E d \in clientDone : \E e \in World :
          /\ HonestNonce(d.clientNonce) /\ HonestNonce(d.serverNonce)
          /\ e.tag = "enc"
          /\ {d.clientNonce, d.serverNonce} \subseteq Subitems(e)

\* ---------------------------------------------------------------------
\* Division (examples/java/termination/_call_perms.javaspec)
\* ---------------------------------------------------------------------

\* width of an int in bits (two's complement)
IntBits == 9

\* the mask of bigwiseand_test
ByteMask == 255

MinInt == -Pow2(IntBits - 1)

MaxInt == Pow2(IntBits - 1) - 1

Ints == MinInt .. MaxInt

\* an int operation's result, kept in IntBits bits
wrap(v) == ((v - MinInt) % Pow2(IntBits)) + MinInt

abs(v) == IF v < 0 THEN -v ELSE v

\* rounds toward minus infinity
div_floor(x, y) == wrap(IF y < 0 THEN (-x) \div (-y) ELSE x \div y)

\* x / y, y # 0: rounds toward zero
div(x, y) ==
    wrap(IF (x < 0) # (y < 0) THEN -(abs(x) \div abs(y)) ELSE abs(x) \div abs(y))

\* x % y, y # 0: the sign of the dividend
rem(x, y) == IF x < 0 THEN -(abs(x) % abs(y)) ELSE abs(x) % abs(y)

RECURSIVE and_bits(_, _, _)
and_bits(a, b, n) ==
    IF n = 0 THEN 0
    ELSE (a % 2) * (b % 2) + 2 * and_bits(a \div 2, b \div 2, n - 1)

\* x & y on the two's complement bits
bitand(x, y) ==
    wrap(and_bits(x % Pow2(IntBits), y % Pow2(IntBits), IntBits))

NoTest == [fn |-> "", nom |-> 0, denom |-> 0, x |-> 0, tmp |-> 0, rest |-> 0,
           failed |-> FALSE]

InitDivision ==
    /\ badSet = {}
    /\ principals = 0
    /\ keyCount = << >>
    /\ pki = << >>
    /\ proc = << >>
    /\ me = -1
    /\ attackerSteps = 0
    /\ World = {}
    /\ clientDone = {}
    /\ serverDone = {}
    /\ keypairs = {}
    /\ created = 0
    /\ nonces = << >>
    /\ call = NoTest

\* requires denom != 0
division_test ==
    /\ call.fn = ""
    /\ \E nom \in Ints, denom \in Ints \ {0} :
          call' = [NoTest EXCEPT !.fn = "division_test", !.nom = nom,
                                 !.denom = denom, !.tmp = div(nom, denom)]
    /\ UNCHANGED <<badSet, protocolVars>>

\* requires denom != 0
division_test2 ==
    /\ call.fn = ""
    /\ \E nom \in Ints, denom \in Ints \ {0} :
          call' = [NoTest EXCEPT !.fn = "division_test2", !.nom = nom,
                                 !.denom = denom, !.tmp = div(nom, denom),
                                 !.rest = rem(nom, denom)]
    /\ UNCHANGED <<badSet, protocolVars>>

bigwiseand_test ==
    /\ call.fn = ""
    /\ \E x \in Ints :
          call' = [NoTest EXCEPT !.fn = "bigwiseand_test", !.x = x,
                                 !.tmp = bitand(x, ByteMask)]
    /\ UNCHANGED <<badSet, protocolVars>>

\* requires true: the division fails when denom is 0
division_test_fail ==
    /\ call.fn = ""
    /\ \E nom \in Ints, denom \in Ints :
          call' = IF denom = 0
                  THEN [NoTest EXCEPT !.fn = "division_test_fail", !.nom = nom,
                                      !.denom = denom, !.failed = TRUE]
                  ELSE [NoTest EXCEPT !.fn = "division_test_fail", !.nom = nom,
                                      !.denom = denom, !.tmp = div(nom, denom)]
    /\ UNCHANGED <<badSet, protocolVars>>

NextDivision ==
    \/ division_test
    \/ division_test2
    \/ bigwiseand_test
    \/ division_test_fail

SpecDivision == InitDivision /\ [][NextDivision]_vars

====
